---------------------------- MODULE Spec2Model ----------------------------
(***************************************************************************)
(* Model of the Helm provider's configuration core (helm/provider.go):     *)
(*   - the helm_driver validator of the provider schema,                   *)
(*   - k8sGetOk, inCluster and checkKubernetesConfigurationValid,          *)
(*   - providerConfigure, which builds the shared Meta,                    *)
(*   - Meta.GetHelmConfiguration, the mutex-guarded construction of an     *)
(*     action configuration, run by concurrent callers.                    *)
(*                                                                         *)
(* Go strings whose letters matter (the storage driver name) are sequences *)
(* of one-character strings; all other strings are opaque and only their   *)
(* emptiness is observed, as in the code.                                  *)
(***************************************************************************)
EXTENDS Naturals, Sequences, FiniteSets

VARIABLES
    d,          \* the *schema.ResourceData handed to providerConfigure: the values
                \* it presents for the top-level fields, and per kubernetes field
                \* whether it holds a value and which
    env,        \* the process environment read by os.Getenv / EnvDefaultFunc
    statOk,     \* whether os.Stat(apiTokenMountPath) succeeds
    meta,       \* the Meta returned by providerConfigure, NilMeta before
    diags,      \* the diagnostics the provider's configuration ended with
    configured, \* whether the provider's configuration step has run
    mutex,      \* Meta's embedded sync.Mutex: TRUE when locked
    pc,         \* per caller: position inside GetHelmConfiguration
    namespace,  \* per caller: the namespace argument of its call
    ret,        \* per caller: the (configuration, error) pair returned
    failed,     \* per caller: which construction step failed, with its error
    initArgs,   \* per caller: the arguments actionConfig.Init was called with
    got         \* the result of the last direct call of a pure function

vars == <<d, env, statOk, meta, diags, configured, mutex, pc, namespace,
          ret, failed, initArgs, got>>

(***************************************************************************)
(* Bounds of the model.                                                    *)
(***************************************************************************)
NumCallers == 2
MaxDriverLen == 3

Callers == 1..NumCallers
Namespaces == {"default", "kube-system"}

(***************************************************************************)
(* Strings as sequences of runes; strings.ToLower and strings.Join.        *)
(* An ASCII rune is written as itself, a rune outside ASCII by its code    *)
(* point ("U+0130").  NonAsciiUpper and NonAsciiLower hold every rune      *)
(* outside ASCII that unicode.ToLower changes and the rune it returns: the *)
(* simple lower-case mappings of the Unicode Character Database (the same  *)
(* pairs in versions 14.0 and 15.0), U+0130 mapping to 'i'.                *)
(***************************************************************************)
UpperLetters ==
    <<"A","B","C","D","E","F","G","H","I","J","K","L","M",
      "N","O","P","Q","R","S","T","U","V","W","X","Y","Z">>
LowerLetters ==
    <<"a","b","c","d","e","f","g","h","i","j","k","l","m",
      "n","o","p","q","r","s","t","u","v","w","x","y","z">>

NonAsciiUpper ==
    <<"U+00C0","U+00C1","U+00C2","U+00C3","U+00C4","U+00C5",
      "U+00C6","U+00C7","U+00C8","U+00C9","U+00CA","U+00CB",
      "U+00CC","U+00CD","U+00CE","U+00CF","U+00D0","U+00D1",
      "U+00D2","U+00D3","U+00D4","U+00D5","U+00D6","U+00D8",
      "U+00D9","U+00DA","U+00DB","U+00DC","U+00DD","U+00DE",
      "U+0100","U+0102","U+0104","U+0106","U+0108","U+010A",
      "U+010C","U+010E","U+0110","U+0112","U+0114","U+0116",
      "U+0118","U+011A","U+011C","U+011E","U+0120","U+0122",
      "U+0124","U+0126","U+0128","U+012A","U+012C","U+012E",
      "U+0130","U+0132","U+0134","U+0136","U+0139","U+013B",
      "U+013D","U+013F","U+0141","U+0143","U+0145","U+0147",
      "U+014A","U+014C","U+014E","U+0150","U+0152","U+0154",
      "U+0156","U+0158","U+015A","U+015C","U+015E","U+0160",
      "U+0162","U+0164","U+0166","U+0168","U+016A","U+016C",
      "U+016E","U+0170","U+0172","U+0174","U+0176","U+0178",
      "U+0179","U+017B","U+017D","U+0181","U+0182","U+0184",
      "U+0186","U+0187","U+0189","U+018A","U+018B","U+018E",
      "U+018F","U+0190","U+0191","U+0193","U+0194","U+0196",
      "U+0197","U+0198","U+019C","U+019D","U+019F","U+01A0",
      "U+01A2","U+01A4","U+01A6","U+01A7","U+01A9","U+01AC",
      "U+01AE","U+01AF","U+01B1","U+01B2","U+01B3","U+01B5",
      "U+01B7","U+01B8","U+01BC","U+01C4","U+01C5","U+01C7",
      "U+01C8","U+01CA","U+01CB","U+01CD","U+01CF","U+01D1",
      "U+01D3","U+01D5","U+01D7","U+01D9","U+01DB","U+01DE",
      "U+01E0","U+01E2","U+01E4","U+01E6","U+01E8","U+01EA",
      "U+01EC","U+01EE","U+01F1","U+01F2","U+01F4","U+01F6",
      "U+01F7","U+01F8","U+01FA","U+01FC","U+01FE","U+0200",
      "U+0202","U+0204","U+0206","U+0208","U+020A","U+020C",
      "U+020E","U+0210","U+0212","U+0214","U+0216","U+0218",
      "U+021A","U+021C","U+021E","U+0220","U+0222","U+0224",
      "U+0226","U+0228","U+022A","U+022C","U+022E","U+0230",
      "U+0232","U+023A","U+023B","U+023D","U+023E","U+0241",
      "U+0243","U+0244","U+0245","U+0246","U+0248","U+024A",
      "U+024C","U+024E","U+0370","U+0372","U+0376","U+037F",
      "U+0386","U+0388","U+0389","U+038A","U+038C","U+038E",
      "U+038F","U+0391","U+0392","U+0393","U+0394","U+0395",
      "U+0396","U+0397","U+0398","U+0399","U+039A","U+039B",
      "U+039C","U+039D","U+039E","U+039F","U+03A0","U+03A1",
      "U+03A3","U+03A4","U+03A5","U+03A6","U+03A7","U+03A8",
      "U+03A9","U+03AA","U+03AB","U+03CF","U+03D8","U+03DA",
      "U+03DC","U+03DE","U+03E0","U+03E2","U+03E4","U+03E6",
      "U+03E8","U+03EA","U+03EC","U+03EE","U+03F4","U+03F7",
      "U+03F9","U+03FA","U+03FD","U+03FE","U+03FF","U+0400",
      "U+0401","U+0402","U+0403","U+0404","U+0405","U+0406",
      "U+0407","U+0408","U+0409","U+040A","U+040B","U+040C",
      "U+040D","U+040E","U+040F","U+0410","U+0411","U+0412",
      "U+0413","U+0414","U+0415","U+0416","U+0417","U+0418",
      "U+0419","U+041A","U+041B","U+041C","U+041D","U+041E",
      "U+041F","U+0420","U+0421","U+0422","U+0423","U+0424",
      "U+0425","U+0426","U+0427","U+0428","U+0429","U+042A",
      "U+042B","U+042C","U+042D","U+042E","U+042F","U+0460",
      "U+0462","U+0464","U+0466","U+0468","U+046A","U+046C",
      "U+046E","U+0470","U+0472","U+0474","U+0476","U+0478",
      "U+047A","U+047C","U+047E","U+0480","U+048A","U+048C",
      "U+048E","U+0490","U+0492","U+0494","U+0496","U+0498",
      "U+049A","U+049C","U+049E","U+04A0","U+04A2","U+04A4",
      "U+04A6","U+04A8","U+04AA","U+04AC","U+04AE","U+04B0",
      "U+04B2","U+04B4","U+04B6","U+04B8","U+04BA","U+04BC",
      "U+04BE","U+04C0","U+04C1","U+04C3","U+04C5","U+04C7",
      "U+04C9","U+04CB","U+04CD","U+04D0","U+04D2","U+04D4",
      "U+04D6","U+04D8","U+04DA","U+04DC","U+04DE","U+04E0",
      "U+04E2","U+04E4","U+04E6","U+04E8","U+04EA","U+04EC",
      "U+04EE","U+04F0","U+04F2","U+04F4","U+04F6","U+04F8",
      "U+04FA","U+04FC","U+04FE","U+0500","U+0502","U+0504",
      "U+0506","U+0508","U+050A","U+050C","U+050E","U+0510",
      "U+0512","U+0514","U+0516","U+0518","U+051A","U+051C",
      "U+051E","U+0520","U+0522","U+0524","U+0526","U+0528",
      "U+052A","U+052C","U+052E","U+0531","U+0532","U+0533",
      "U+0534","U+0535","U+0536","U+0537","U+0538","U+0539",
      "U+053A","U+053B","U+053C","U+053D","U+053E","U+053F",
      "U+0540","U+0541","U+0542","U+0543","U+0544","U+0545",
      "U+0546","U+0547","U+0548","U+0549","U+054A","U+054B",
      "U+054C","U+054D","U+054E","U+054F","U+0550","U+0551",
      "U+0552","U+0553","U+0554","U+0555","U+0556","U+10A0",
      "U+10A1","U+10A2","U+10A3","U+10A4","U+10A5","U+10A6",
      "U+10A7","U+10A8","U+10A9","U+10AA","U+10AB","U+10AC",
      "U+10AD","U+10AE","U+10AF","U+10B0","U+10B1","U+10B2",
      "U+10B3","U+10B4","U+10B5","U+10B6","U+10B7","U+10B8",
      "U+10B9","U+10BA","U+10BB","U+10BC","U+10BD","U+10BE",
      "U+10BF","U+10C0","U+10C1","U+10C2","U+10C3","U+10C4",
      "U+10C5","U+10C7","U+10CD","U+13A0","U+13A1","U+13A2",
      "U+13A3","U+13A4","U+13A5","U+13A6","U+13A7","U+13A8",
      "U+13A9","U+13AA","U+13AB","U+13AC","U+13AD","U+13AE",
      "U+13AF","U+13B0","U+13B1","U+13B2","U+13B3","U+13B4",
      "U+13B5","U+13B6","U+13B7","U+13B8","U+13B9","U+13BA",
      "U+13BB","U+13BC","U+13BD","U+13BE","U+13BF","U+13C0",
      "U+13C1","U+13C2","U+13C3","U+13C4","U+13C5","U+13C6",
      "U+13C7","U+13C8","U+13C9","U+13CA","U+13CB","U+13CC",
      "U+13CD","U+13CE","U+13CF","U+13D0","U+13D1","U+13D2",
      "U+13D3","U+13D4","U+13D5","U+13D6","U+13D7","U+13D8",
      "U+13D9","U+13DA","U+13DB","U+13DC","U+13DD","U+13DE",
      "U+13DF","U+13E0","U+13E1","U+13E2","U+13E3","U+13E4",
      "U+13E5","U+13E6","U+13E7","U+13E8","U+13E9","U+13EA",
      "U+13EB","U+13EC","U+13ED","U+13EE","U+13EF","U+13F0",
      "U+13F1","U+13F2","U+13F3","U+13F4","U+13F5","U+1C90",
      "U+1C91","U+1C92","U+1C93","U+1C94","U+1C95","U+1C96",
      "U+1C97","U+1C98","U+1C99","U+1C9A","U+1C9B","U+1C9C",
      "U+1C9D","U+1C9E","U+1C9F","U+1CA0","U+1CA1","U+1CA2",
      "U+1CA3","U+1CA4","U+1CA5","U+1CA6","U+1CA7","U+1CA8",
      "U+1CA9","U+1CAA","U+1CAB","U+1CAC","U+1CAD","U+1CAE",
      "U+1CAF","U+1CB0","U+1CB1","U+1CB2","U+1CB3","U+1CB4",
      "U+1CB5","U+1CB6","U+1CB7","U+1CB8","U+1CB9","U+1CBA",
      "U+1CBD","U+1CBE","U+1CBF","U+1E00","U+1E02","U+1E04",
      "U+1E06","U+1E08","U+1E0A","U+1E0C","U+1E0E","U+1E10",
      "U+1E12","U+1E14","U+1E16","U+1E18","U+1E1A","U+1E1C",
      "U+1E1E","U+1E20","U+1E22","U+1E24","U+1E26","U+1E28",
      "U+1E2A","U+1E2C","U+1E2E","U+1E30","U+1E32","U+1E34",
      "U+1E36","U+1E38","U+1E3A","U+1E3C","U+1E3E","U+1E40",
      "U+1E42","U+1E44","U+1E46","U+1E48","U+1E4A","U+1E4C",
      "U+1E4E","U+1E50","U+1E52","U+1E54","U+1E56","U+1E58",
      "U+1E5A","U+1E5C","U+1E5E","U+1E60","U+1E62","U+1E64",
      "U+1E66","U+1E68","U+1E6A","U+1E6C","U+1E6E","U+1E70",
      "U+1E72","U+1E74","U+1E76","U+1E78","U+1E7A","U+1E7C",
      "U+1E7E","U+1E80","U+1E82","U+1E84","U+1E86","U+1E88",
      "U+1E8A","U+1E8C","U+1E8E","U+1E90","U+1E92","U+1E94",
      "U+1E9E","U+1EA0","U+1EA2","U+1EA4","U+1EA6","U+1EA8",
      "U+1EAA","U+1EAC","U+1EAE","U+1EB0","U+1EB2","U+1EB4",
      "U+1EB6","U+1EB8","U+1EBA","U+1EBC","U+1EBE","U+1EC0",
      "U+1EC2","U+1EC4","U+1EC6","U+1EC8","U+1ECA","U+1ECC",
      "U+1ECE","U+1ED0","U+1ED2","U+1ED4","U+1ED6","U+1ED8",
      "U+1EDA","U+1EDC","U+1EDE","U+1EE0","U+1EE2","U+1EE4",
      "U+1EE6","U+1EE8","U+1EEA","U+1EEC","U+1EEE","U+1EF0",
      "U+1EF2","U+1EF4","U+1EF6","U+1EF8","U+1EFA","U+1EFC",
      "U+1EFE","U+1F08","U+1F09","U+1F0A","U+1F0B","U+1F0C",
      "U+1F0D","U+1F0E","U+1F0F","U+1F18","U+1F19","U+1F1A",
      "U+1F1B","U+1F1C","U+1F1D","U+1F28","U+1F29","U+1F2A",
      "U+1F2B","U+1F2C","U+1F2D","U+1F2E","U+1F2F","U+1F38",
      "U+1F39","U+1F3A","U+1F3B","U+1F3C","U+1F3D","U+1F3E",
      "U+1F3F","U+1F48","U+1F49","U+1F4A","U+1F4B","U+1F4C",
      "U+1F4D","U+1F59","U+1F5B","U+1F5D","U+1F5F","U+1F68",
      "U+1F69","U+1F6A","U+1F6B","U+1F6C","U+1F6D","U+1F6E",
      "U+1F6F","U+1F88","U+1F89","U+1F8A","U+1F8B","U+1F8C",
      "U+1F8D","U+1F8E","U+1F8F","U+1F98","U+1F99","U+1F9A",
      "U+1F9B","U+1F9C","U+1F9D","U+1F9E","U+1F9F","U+1FA8",
      "U+1FA9","U+1FAA","U+1FAB","U+1FAC","U+1FAD","U+1FAE",
      "U+1FAF","U+1FB8","U+1FB9","U+1FBA","U+1FBB","U+1FBC",
      "U+1FC8","U+1FC9","U+1FCA","U+1FCB","U+1FCC","U+1FD8",
      "U+1FD9","U+1FDA","U+1FDB","U+1FE8","U+1FE9","U+1FEA",
      "U+1FEB","U+1FEC","U+1FF8","U+1FF9","U+1FFA","U+1FFB",
      "U+1FFC","U+2126","U+212A","U+212B","U+2132","U+2160",
      "U+2161","U+2162","U+2163","U+2164","U+2165","U+2166",
      "U+2167","U+2168","U+2169","U+216A","U+216B","U+216C",
      "U+216D","U+216E","U+216F","U+2183","U+24B6","U+24B7",
      "U+24B8","U+24B9","U+24BA","U+24BB","U+24BC","U+24BD",
      "U+24BE","U+24BF","U+24C0","U+24C1","U+24C2","U+24C3",
      "U+24C4","U+24C5","U+24C6","U+24C7","U+24C8","U+24C9",
      "U+24CA","U+24CB","U+24CC","U+24CD","U+24CE","U+24CF",
      "U+2C00","U+2C01","U+2C02","U+2C03","U+2C04","U+2C05",
      "U+2C06","U+2C07","U+2C08","U+2C09","U+2C0A","U+2C0B",
      "U+2C0C","U+2C0D","U+2C0E","U+2C0F","U+2C10","U+2C11",
      "U+2C12","U+2C13","U+2C14","U+2C15","U+2C16","U+2C17",
      "U+2C18","U+2C19","U+2C1A","U+2C1B","U+2C1C","U+2C1D",
      "U+2C1E","U+2C1F","U+2C20","U+2C21","U+2C22","U+2C23",
      "U+2C24","U+2C25","U+2C26","U+2C27","U+2C28","U+2C29",
      "U+2C2A","U+2C2B","U+2C2C","U+2C2D","U+2C2E","U+2C2F",
      "U+2C60","U+2C62","U+2C63","U+2C64","U+2C67","U+2C69",
      "U+2C6B","U+2C6D","U+2C6E","U+2C6F","U+2C70","U+2C72",
      "U+2C75","U+2C7E","U+2C7F","U+2C80","U+2C82","U+2C84",
      "U+2C86","U+2C88","U+2C8A","U+2C8C","U+2C8E","U+2C90",
      "U+2C92","U+2C94","U+2C96","U+2C98","U+2C9A","U+2C9C",
      "U+2C9E","U+2CA0","U+2CA2","U+2CA4","U+2CA6","U+2CA8",
      "U+2CAA","U+2CAC","U+2CAE","U+2CB0","U+2CB2","U+2CB4",
      "U+2CB6","U+2CB8","U+2CBA","U+2CBC","U+2CBE","U+2CC0",
      "U+2CC2","U+2CC4","U+2CC6","U+2CC8","U+2CCA","U+2CCC",
      "U+2CCE","U+2CD0","U+2CD2","U+2CD4","U+2CD6","U+2CD8",
      "U+2CDA","U+2CDC","U+2CDE","U+2CE0","U+2CE2","U+2CEB",
      "U+2CED","U+2CF2","U+A640","U+A642","U+A644","U+A646",
      "U+A648","U+A64A","U+A64C","U+A64E","U+A650","U+A652",
      "U+A654","U+A656","U+A658","U+A65A","U+A65C","U+A65E",
      "U+A660","U+A662","U+A664","U+A666","U+A668","U+A66A",
      "U+A66C","U+A680","U+A682","U+A684","U+A686","U+A688",
      "U+A68A","U+A68C","U+A68E","U+A690","U+A692","U+A694",
      "U+A696","U+A698","U+A69A","U+A722","U+A724","U+A726",
      "U+A728","U+A72A","U+A72C","U+A72E","U+A732","U+A734",
      "U+A736","U+A738","U+A73A","U+A73C","U+A73E","U+A740",
      "U+A742","U+A744","U+A746","U+A748","U+A74A","U+A74C",
      "U+A74E","U+A750","U+A752","U+A754","U+A756","U+A758",
      "U+A75A","U+A75C","U+A75E","U+A760","U+A762","U+A764",
      "U+A766","U+A768","U+A76A","U+A76C","U+A76E","U+A779",
      "U+A77B","U+A77D","U+A77E","U+A780","U+A782","U+A784",
      "U+A786","U+A78B","U+A78D","U+A790","U+A792","U+A796",
      "U+A798","U+A79A","U+A79C","U+A79E","U+A7A0","U+A7A2",
      "U+A7A4","U+A7A6","U+A7A8","U+A7AA","U+A7AB","U+A7AC",
      "U+A7AD","U+A7AE","U+A7B0","U+A7B1","U+A7B2","U+A7B3",
      "U+A7B4","U+A7B6","U+A7B8","U+A7BA","U+A7BC","U+A7BE",
      "U+A7C0","U+A7C2","U+A7C4","U+A7C5","U+A7C6","U+A7C7",
      "U+A7C9","U+A7D0","U+A7D6","U+A7D8","U+A7F5","U+FF21",
      "U+FF22","U+FF23","U+FF24","U+FF25","U+FF26","U+FF27",
      "U+FF28","U+FF29","U+FF2A","U+FF2B","U+FF2C","U+FF2D",
      "U+FF2E","U+FF2F","U+FF30","U+FF31","U+FF32","U+FF33",
      "U+FF34","U+FF35","U+FF36","U+FF37","U+FF38","U+FF39",
      "U+FF3A","U+10400","U+10401","U+10402","U+10403","U+10404",
      "U+10405","U+10406","U+10407","U+10408","U+10409","U+1040A",
      "U+1040B","U+1040C","U+1040D","U+1040E","U+1040F","U+10410",
      "U+10411","U+10412","U+10413","U+10414","U+10415","U+10416",
      "U+10417","U+10418","U+10419","U+1041A","U+1041B","U+1041C",
      "U+1041D","U+1041E","U+1041F","U+10420","U+10421","U+10422",
      "U+10423","U+10424","U+10425","U+10426","U+10427","U+104B0",
      "U+104B1","U+104B2","U+104B3","U+104B4","U+104B5","U+104B6",
      "U+104B7","U+104B8","U+104B9","U+104BA","U+104BB","U+104BC",
      "U+104BD","U+104BE","U+104BF","U+104C0","U+104C1","U+104C2",
      "U+104C3","U+104C4","U+104C5","U+104C6","U+104C7","U+104C8",
      "U+104C9","U+104CA","U+104CB","U+104CC","U+104CD","U+104CE",
      "U+104CF","U+104D0","U+104D1","U+104D2","U+104D3","U+10570",
      "U+10571","U+10572","U+10573","U+10574","U+10575","U+10576",
      "U+10577","U+10578","U+10579","U+1057A","U+1057C","U+1057D",
      "U+1057E","U+1057F","U+10580","U+10581","U+10582","U+10583",
      "U+10584","U+10585","U+10586","U+10587","U+10588","U+10589",
      "U+1058A","U+1058C","U+1058D","U+1058E","U+1058F","U+10590",
      "U+10591","U+10592","U+10594","U+10595","U+10C80","U+10C81",
      "U+10C82","U+10C83","U+10C84","U+10C85","U+10C86","U+10C87",
      "U+10C88","U+10C89","U+10C8A","U+10C8B","U+10C8C","U+10C8D",
      "U+10C8E","U+10C8F","U+10C90","U+10C91","U+10C92","U+10C93",
      "U+10C94","U+10C95","U+10C96","U+10C97","U+10C98","U+10C99",
      "U+10C9A","U+10C9B","U+10C9C","U+10C9D","U+10C9E","U+10C9F",
      "U+10CA0","U+10CA1","U+10CA2","U+10CA3","U+10CA4","U+10CA5",
      "U+10CA6","U+10CA7","U+10CA8","U+10CA9","U+10CAA","U+10CAB",
      "U+10CAC","U+10CAD","U+10CAE","U+10CAF","U+10CB0","U+10CB1",
      "U+10CB2","U+118A0","U+118A1","U+118A2","U+118A3","U+118A4",
      "U+118A5","U+118A6","U+118A7","U+118A8","U+118A9","U+118AA",
      "U+118AB","U+118AC","U+118AD","U+118AE","U+118AF","U+118B0",
      "U+118B1","U+118B2","U+118B3","U+118B4","U+118B5","U+118B6",
      "U+118B7","U+118B8","U+118B9","U+118BA","U+118BB","U+118BC",
      "U+118BD","U+118BE","U+118BF","U+16E40","U+16E41","U+16E42",
      "U+16E43","U+16E44","U+16E45","U+16E46","U+16E47","U+16E48",
      "U+16E49","U+16E4A","U+16E4B","U+16E4C","U+16E4D","U+16E4E",
      "U+16E4F","U+16E50","U+16E51","U+16E52","U+16E53","U+16E54",
      "U+16E55","U+16E56","U+16E57","U+16E58","U+16E59","U+16E5A",
      "U+16E5B","U+16E5C","U+16E5D","U+16E5E","U+16E5F","U+1E900",
      "U+1E901","U+1E902","U+1E903","U+1E904","U+1E905","U+1E906",
      "U+1E907","U+1E908","U+1E909","U+1E90A","U+1E90B","U+1E90C",
      "U+1E90D","U+1E90E","U+1E90F","U+1E910","U+1E911","U+1E912",
      "U+1E913","U+1E914","U+1E915","U+1E916","U+1E917","U+1E918",
      "U+1E919","U+1E91A","U+1E91B","U+1E91C","U+1E91D","U+1E91E",
      "U+1E91F","U+1E920","U+1E921">>
NonAsciiLower ==
    <<"U+00E0","U+00E1","U+00E2","U+00E3","U+00E4","U+00E5",
      "U+00E6","U+00E7","U+00E8","U+00E9","U+00EA","U+00EB",
      "U+00EC","U+00ED","U+00EE","U+00EF","U+00F0","U+00F1",
      "U+00F2","U+00F3","U+00F4","U+00F5","U+00F6","U+00F8",
      "U+00F9","U+00FA","U+00FB","U+00FC","U+00FD","U+00FE",
      "U+0101","U+0103","U+0105","U+0107","U+0109","U+010B",
      "U+010D","U+010F","U+0111","U+0113","U+0115","U+0117",
      "U+0119","U+011B","U+011D","U+011F","U+0121","U+0123",
      "U+0125","U+0127","U+0129","U+012B","U+012D","U+012F",
      "i","U+0133","U+0135","U+0137","U+013A","U+013C",
      "U+013E","U+0140","U+0142","U+0144","U+0146","U+0148",
      "U+014B","U+014D","U+014F","U+0151","U+0153","U+0155",
      "U+0157","U+0159","U+015B","U+015D","U+015F","U+0161",
      "U+0163","U+0165","U+0167","U+0169","U+016B","U+016D",
      "U+016F","U+0171","U+0173","U+0175","U+0177","U+00FF",
      "U+017A","U+017C","U+017E","U+0253","U+0183","U+0185",
      "U+0254","U+0188","U+0256","U+0257","U+018C","U+01DD",
      "U+0259","U+025B","U+0192","U+0260","U+0263","U+0269",
      "U+0268","U+0199","U+026F","U+0272","U+0275","U+01A1",
      "U+01A3","U+01A5","U+0280","U+01A8","U+0283","U+01AD",
      "U+0288","U+01B0","U+028A","U+028B","U+01B4","U+01B6",
      "U+0292","U+01B9","U+01BD","U+01C6","U+01C6","U+01C9",
      "U+01C9","U+01CC","U+01CC","U+01CE","U+01D0","U+01D2",
      "U+01D4","U+01D6","U+01D8","U+01DA","U+01DC","U+01DF",
      "U+01E1","U+01E3","U+01E5","U+01E7","U+01E9","U+01EB",
      "U+01ED","U+01EF","U+01F3","U+01F3","U+01F5","U+0195",
      "U+01BF","U+01F9","U+01FB","U+01FD","U+01FF","U+0201",
      "U+0203","U+0205","U+0207","U+0209","U+020B","U+020D",
      "U+020F","U+0211","U+0213","U+0215","U+0217","U+0219",
      "U+021B","U+021D","U+021F","U+019E","U+0223","U+0225",
      "U+0227","U+0229","U+022B","U+022D","U+022F","U+0231",
      "U+0233","U+2C65","U+023C","U+019A","U+2C66","U+0242",
      "U+0180","U+0289","U+028C","U+0247","U+0249","U+024B",
      "U+024D","U+024F","U+0371","U+0373","U+0377","U+03F3",
      "U+03AC","U+03AD","U+03AE","U+03AF","U+03CC","U+03CD",
      "U+03CE","U+03B1","U+03B2","U+03B3","U+03B4","U+03B5",
      "U+03B6","U+03B7","U+03B8","U+03B9","U+03BA","U+03BB",
      "U+03BC","U+03BD","U+03BE","U+03BF","U+03C0","U+03C1",
      "U+03C3","U+03C4","U+03C5","U+03C6","U+03C7","U+03C8",
      "U+03C9","U+03CA","U+03CB","U+03D7","U+03D9","U+03DB",
      "U+03DD","U+03DF","U+03E1","U+03E3","U+03E5","U+03E7",
      "U+03E9","U+03EB","U+03ED","U+03EF","U+03B8","U+03F8",
      "U+03F2","U+03FB","U+037B","U+037C","U+037D","U+0450",
      "U+0451","U+0452","U+0453","U+0454","U+0455","U+0456",
      "U+0457","U+0458","U+0459","U+045A","U+045B","U+045C",
      "U+045D","U+045E","U+045F","U+0430","U+0431","U+0432",
      "U+0433","U+0434","U+0435","U+0436","U+0437","U+0438",
      "U+0439","U+043A","U+043B","U+043C","U+043D","U+043E",
      "U+043F","U+0440","U+0441","U+0442","U+0443","U+0444",
      "U+0445","U+0446","U+0447","U+0448","U+0449","U+044A",
      "U+044B","U+044C","U+044D","U+044E","U+044F","U+0461",
      "U+0463","U+0465","U+0467","U+0469","U+046B","U+046D",
      "U+046F","U+0471","U+0473","U+0475","U+0477","U+0479",
      "U+047B","U+047D","U+047F","U+0481","U+048B","U+048D",
      "U+048F","U+0491","U+0493","U+0495","U+0497","U+0499",
      "U+049B","U+049D","U+049F","U+04A1","U+04A3","U+04A5",
      "U+04A7","U+04A9","U+04AB","U+04AD","U+04AF","U+04B1",
      "U+04B3","U+04B5","U+04B7","U+04B9","U+04BB","U+04BD",
      "U+04BF","U+04CF","U+04C2","U+04C4","U+04C6","U+04C8",
      "U+04CA","U+04CC","U+04CE","U+04D1","U+04D3","U+04D5",
      "U+04D7","U+04D9","U+04DB","U+04DD","U+04DF","U+04E1",
      "U+04E3","U+04E5","U+04E7","U+04E9","U+04EB","U+04ED",
      "U+04EF","U+04F1","U+04F3","U+04F5","U+04F7","U+04F9",
      "U+04FB","U+04FD","U+04FF","U+0501","U+0503","U+0505",
      "U+0507","U+0509","U+050B","U+050D","U+050F","U+0511",
      "U+0513","U+0515","U+0517","U+0519","U+051B","U+051D",
      "U+051F","U+0521","U+0523","U+0525","U+0527","U+0529",
      "U+052B","U+052D","U+052F","U+0561","U+0562","U+0563",
      "U+0564","U+0565","U+0566","U+0567","U+0568","U+0569",
      "U+056A","U+056B","U+056C","U+056D","U+056E","U+056F",
      "U+0570","U+0571","U+0572","U+0573","U+0574","U+0575",
      "U+0576","U+0577","U+0578","U+0579","U+057A","U+057B",
      "U+057C","U+057D","U+057E","U+057F","U+0580","U+0581",
      "U+0582","U+0583","U+0584","U+0585","U+0586","U+2D00",
      "U+2D01","U+2D02","U+2D03","U+2D04","U+2D05","U+2D06",
      "U+2D07","U+2D08","U+2D09","U+2D0A","U+2D0B","U+2D0C",
      "U+2D0D","U+2D0E","U+2D0F","U+2D10","U+2D11","U+2D12",
      "U+2D13","U+2D14","U+2D15","U+2D16","U+2D17","U+2D18",
      "U+2D19","U+2D1A","U+2D1B","U+2D1C","U+2D1D","U+2D1E",
      "U+2D1F","U+2D20","U+2D21","U+2D22","U+2D23","U+2D24",
      "U+2D25","U+2D27","U+2D2D","U+AB70","U+AB71","U+AB72",
      "U+AB73","U+AB74","U+AB75","U+AB76","U+AB77","U+AB78",
      "U+AB79","U+AB7A","U+AB7B","U+AB7C","U+AB7D","U+AB7E",
      "U+AB7F","U+AB80","U+AB81","U+AB82","U+AB83","U+AB84",
      "U+AB85","U+AB86","U+AB87","U+AB88","U+AB89","U+AB8A",
      "U+AB8B","U+AB8C","U+AB8D","U+AB8E","U+AB8F","U+AB90",
      "U+AB91","U+AB92","U+AB93","U+AB94","U+AB95","U+AB96",
      "U+AB97","U+AB98","U+AB99","U+AB9A","U+AB9B","U+AB9C",
      "U+AB9D","U+AB9E","U+AB9F","U+ABA0","U+ABA1","U+ABA2",
      "U+ABA3","U+ABA4","U+ABA5","U+ABA6","U+ABA7","U+ABA8",
      "U+ABA9","U+ABAA","U+ABAB","U+ABAC","U+ABAD","U+ABAE",
      "U+ABAF","U+ABB0","U+ABB1","U+ABB2","U+ABB3","U+ABB4",
      "U+ABB5","U+ABB6","U+ABB7","U+ABB8","U+ABB9","U+ABBA",
      "U+ABBB","U+ABBC","U+ABBD","U+ABBE","U+ABBF","U+13F8",
      "U+13F9","U+13FA","U+13FB","U+13FC","U+13FD","U+10D0",
      "U+10D1","U+10D2","U+10D3","U+10D4","U+10D5","U+10D6",
      "U+10D7","U+10D8","U+10D9","U+10DA","U+10DB","U+10DC",
      "U+10DD","U+10DE","U+10DF","U+10E0","U+10E1","U+10E2",
      "U+10E3","U+10E4","U+10E5","U+10E6","U+10E7","U+10E8",
      "U+10E9","U+10EA","U+10EB","U+10EC","U+10ED","U+10EE",
      "U+10EF","U+10F0","U+10F1","U+10F2","U+10F3","U+10F4",
      "U+10F5","U+10F6","U+10F7","U+10F8","U+10F9","U+10FA",
      "U+10FD","U+10FE","U+10FF","U+1E01","U+1E03","U+1E05",
      "U+1E07","U+1E09","U+1E0B","U+1E0D","U+1E0F","U+1E11",
      "U+1E13","U+1E15","U+1E17","U+1E19","U+1E1B","U+1E1D",
      "U+1E1F","U+1E21","U+1E23","U+1E25","U+1E27","U+1E29",
      "U+1E2B","U+1E2D","U+1E2F","U+1E31","U+1E33","U+1E35",
      "U+1E37","U+1E39","U+1E3B","U+1E3D","U+1E3F","U+1E41",
      "U+1E43","U+1E45","U+1E47","U+1E49","U+1E4B","U+1E4D",
      "U+1E4F","U+1E51","U+1E53","U+1E55","U+1E57","U+1E59",
      "U+1E5B","U+1E5D","U+1E5F","U+1E61","U+1E63","U+1E65",
      "U+1E67","U+1E69","U+1E6B","U+1E6D","U+1E6F","U+1E71",
      "U+1E73","U+1E75","U+1E77","U+1E79","U+1E7B","U+1E7D",
      "U+1E7F","U+1E81","U+1E83","U+1E85","U+1E87","U+1E89",
      "U+1E8B","U+1E8D","U+1E8F","U+1E91","U+1E93","U+1E95",
      "U+00DF","U+1EA1","U+1EA3","U+1EA5","U+1EA7","U+1EA9",
      "U+1EAB","U+1EAD","U+1EAF","U+1EB1","U+1EB3","U+1EB5",
      "U+1EB7","U+1EB9","U+1EBB","U+1EBD","U+1EBF","U+1EC1",
      "U+1EC3","U+1EC5","U+1EC7","U+1EC9","U+1ECB","U+1ECD",
      "U+1ECF","U+1ED1","U+1ED3","U+1ED5","U+1ED7","U+1ED9",
      "U+1EDB","U+1EDD","U+1EDF","U+1EE1","U+1EE3","U+1EE5",
      "U+1EE7","U+1EE9","U+1EEB","U+1EED","U+1EEF","U+1EF1",
      "U+1EF3","U+1EF5","U+1EF7","U+1EF9","U+1EFB","U+1EFD",
      "U+1EFF","U+1F00","U+1F01","U+1F02","U+1F03","U+1F04",
      "U+1F05","U+1F06","U+1F07","U+1F10","U+1F11","U+1F12",
      "U+1F13","U+1F14","U+1F15","U+1F20","U+1F21","U+1F22",
      "U+1F23","U+1F24","U+1F25","U+1F26","U+1F27","U+1F30",
      "U+1F31","U+1F32","U+1F33","U+1F34","U+1F35","U+1F36",
      "U+1F37","U+1F40","U+1F41","U+1F42","U+1F43","U+1F44",
      "U+1F45","U+1F51","U+1F53","U+1F55","U+1F57","U+1F60",
      "U+1F61","U+1F62","U+1F63","U+1F64","U+1F65","U+1F66",
      "U+1F67","U+1F80","U+1F81","U+1F82","U+1F83","U+1F84",
      "U+1F85","U+1F86","U+1F87","U+1F90","U+1F91","U+1F92",
      "U+1F93","U+1F94","U+1F95","U+1F96","U+1F97","U+1FA0",
      "U+1FA1","U+1FA2","U+1FA3","U+1FA4","U+1FA5","U+1FA6",
      "U+1FA7","U+1FB0","U+1FB1","U+1F70","U+1F71","U+1FB3",
      "U+1F72","U+1F73","U+1F74","U+1F75","U+1FC3","U+1FD0",
      "U+1FD1","U+1F76","U+1F77","U+1FE0","U+1FE1","U+1F7A",
      "U+1F7B","U+1FE5","U+1F78","U+1F79","U+1F7C","U+1F7D",
      "U+1FF3","U+03C9","k","U+00E5","U+214E","U+2170",
      "U+2171","U+2172","U+2173","U+2174","U+2175","U+2176",
      "U+2177","U+2178","U+2179","U+217A","U+217B","U+217C",
      "U+217D","U+217E","U+217F","U+2184","U+24D0","U+24D1",
      "U+24D2","U+24D3","U+24D4","U+24D5","U+24D6","U+24D7",
      "U+24D8","U+24D9","U+24DA","U+24DB","U+24DC","U+24DD",
      "U+24DE","U+24DF","U+24E0","U+24E1","U+24E2","U+24E3",
      "U+24E4","U+24E5","U+24E6","U+24E7","U+24E8","U+24E9",
      "U+2C30","U+2C31","U+2C32","U+2C33","U+2C34","U+2C35",
      "U+2C36","U+2C37","U+2C38","U+2C39","U+2C3A","U+2C3B",
      "U+2C3C","U+2C3D","U+2C3E","U+2C3F","U+2C40","U+2C41",
      "U+2C42","U+2C43","U+2C44","U+2C45","U+2C46","U+2C47",
      "U+2C48","U+2C49","U+2C4A","U+2C4B","U+2C4C","U+2C4D",
      "U+2C4E","U+2C4F","U+2C50","U+2C51","U+2C52","U+2C53",
      "U+2C54","U+2C55","U+2C56","U+2C57","U+2C58","U+2C59",
      "U+2C5A","U+2C5B","U+2C5C","U+2C5D","U+2C5E","U+2C5F",
      "U+2C61","U+026B","U+1D7D","U+027D","U+2C68","U+2C6A",
      "U+2C6C","U+0251","U+0271","U+0250","U+0252","U+2C73",
      "U+2C76","U+023F","U+0240","U+2C81","U+2C83","U+2C85",
      "U+2C87","U+2C89","U+2C8B","U+2C8D","U+2C8F","U+2C91",
      "U+2C93","U+2C95","U+2C97","U+2C99","U+2C9B","U+2C9D",
      "U+2C9F","U+2CA1","U+2CA3","U+2CA5","U+2CA7","U+2CA9",
      "U+2CAB","U+2CAD","U+2CAF","U+2CB1","U+2CB3","U+2CB5",
      "U+2CB7","U+2CB9","U+2CBB","U+2CBD","U+2CBF","U+2CC1",
      "U+2CC3","U+2CC5","U+2CC7","U+2CC9","U+2CCB","U+2CCD",
      "U+2CCF","U+2CD1","U+2CD3","U+2CD5","U+2CD7","U+2CD9",
      "U+2CDB","U+2CDD","U+2CDF","U+2CE1","U+2CE3","U+2CEC",
      "U+2CEE","U+2CF3","U+A641","U+A643","U+A645","U+A647",
      "U+A649","U+A64B","U+A64D","U+A64F","U+A651","U+A653",
      "U+A655","U+A657","U+A659","U+A65B","U+A65D","U+A65F",
      "U+A661","U+A663","U+A665","U+A667","U+A669","U+A66B",
      "U+A66D","U+A681","U+A683","U+A685","U+A687","U+A689",
      "U+A68B","U+A68D","U+A68F","U+A691","U+A693","U+A695",
      "U+A697","U+A699","U+A69B","U+A723","U+A725","U+A727",
      "U+A729","U+A72B","U+A72D","U+A72F","U+A733","U+A735",
      "U+A737","U+A739","U+A73B","U+A73D","U+A73F","U+A741",
      "U+A743","U+A745","U+A747","U+A749","U+A74B","U+A74D",
      "U+A74F","U+A751","U+A753","U+A755","U+A757","U+A759",
      "U+A75B","U+A75D","U+A75F","U+A761","U+A763","U+A765",
      "U+A767","U+A769","U+A76B","U+A76D","U+A76F","U+A77A",
      "U+A77C","U+1D79","U+A77F","U+A781","U+A783","U+A785",
      "U+A787","U+A78C","U+0265","U+A791","U+A793","U+A797",
      "U+A799","U+A79B","U+A79D","U+A79F","U+A7A1","U+A7A3",
      "U+A7A5","U+A7A7","U+A7A9","U+0266","U+025C","U+0261",
      "U+026C","U+026A","U+029E","U+0287","U+029D","U+AB53",
      "U+A7B5","U+A7B7","U+A7B9","U+A7BB","U+A7BD","U+A7BF",
      "U+A7C1","U+A7C3","U+A794","U+0282","U+1D8E","U+A7C8",
      "U+A7CA","U+A7D1","U+A7D7","U+A7D9","U+A7F6","U+FF41",
      "U+FF42","U+FF43","U+FF44","U+FF45","U+FF46","U+FF47",
      "U+FF48","U+FF49","U+FF4A","U+FF4B","U+FF4C","U+FF4D",
      "U+FF4E","U+FF4F","U+FF50","U+FF51","U+FF52","U+FF53",
      "U+FF54","U+FF55","U+FF56","U+FF57","U+FF58","U+FF59",
      "U+FF5A","U+10428","U+10429","U+1042A","U+1042B","U+1042C",
      "U+1042D","U+1042E","U+1042F","U+10430","U+10431","U+10432",
      "U+10433","U+10434","U+10435","U+10436","U+10437","U+10438",
      "U+10439","U+1043A","U+1043B","U+1043C","U+1043D","U+1043E",
      "U+1043F","U+10440","U+10441","U+10442","U+10443","U+10444",
      "U+10445","U+10446","U+10447","U+10448","U+10449","U+1044A",
      "U+1044B","U+1044C","U+1044D","U+1044E","U+1044F","U+104D8",
      "U+104D9","U+104DA","U+104DB","U+104DC","U+104DD","U+104DE",
      "U+104DF","U+104E0","U+104E1","U+104E2","U+104E3","U+104E4",
      "U+104E5","U+104E6","U+104E7","U+104E8","U+104E9","U+104EA",
      "U+104EB","U+104EC","U+104ED","U+104EE","U+104EF","U+104F0",
      "U+104F1","U+104F2","U+104F3","U+104F4","U+104F5","U+104F6",
      "U+104F7","U+104F8","U+104F9","U+104FA","U+104FB","U+10597",
      "U+10598","U+10599","U+1059A","U+1059B","U+1059C","U+1059D",
      "U+1059E","U+1059F","U+105A0","U+105A1","U+105A3","U+105A4",
      "U+105A5","U+105A6","U+105A7","U+105A8","U+105A9","U+105AA",
      "U+105AB","U+105AC","U+105AD","U+105AE","U+105AF","U+105B0",
      "U+105B1","U+105B3","U+105B4","U+105B5","U+105B6","U+105B7",
      "U+105B8","U+105B9","U+105BB","U+105BC","U+10CC0","U+10CC1",
      "U+10CC2","U+10CC3","U+10CC4","U+10CC5","U+10CC6","U+10CC7",
      "U+10CC8","U+10CC9","U+10CCA","U+10CCB","U+10CCC","U+10CCD",
      "U+10CCE","U+10CCF","U+10CD0","U+10CD1","U+10CD2","U+10CD3",
      "U+10CD4","U+10CD5","U+10CD6","U+10CD7","U+10CD8","U+10CD9",
      "U+10CDA","U+10CDB","U+10CDC","U+10CDD","U+10CDE","U+10CDF",
      "U+10CE0","U+10CE1","U+10CE2","U+10CE3","U+10CE4","U+10CE5",
      "U+10CE6","U+10CE7","U+10CE8","U+10CE9","U+10CEA","U+10CEB",
      "U+10CEC","U+10CED","U+10CEE","U+10CEF","U+10CF0","U+10CF1",
      "U+10CF2","U+118C0","U+118C1","U+118C2","U+118C3","U+118C4",
      "U+118C5","U+118C6","U+118C7","U+118C8","U+118C9","U+118CA",
      "U+118CB","U+118CC","U+118CD","U+118CE","U+118CF","U+118D0",
      "U+118D1","U+118D2","U+118D3","U+118D4","U+118D5","U+118D6",
      "U+118D7","U+118D8","U+118D9","U+118DA","U+118DB","U+118DC",
      "U+118DD","U+118DE","U+118DF","U+16E60","U+16E61","U+16E62",
      "U+16E63","U+16E64","U+16E65","U+16E66","U+16E67","U+16E68",
      "U+16E69","U+16E6A","U+16E6B","U+16E6C","U+16E6D","U+16E6E",
      "U+16E6F","U+16E70","U+16E71","U+16E72","U+16E73","U+16E74",
      "U+16E75","U+16E76","U+16E77","U+16E78","U+16E79","U+16E7A",
      "U+16E7B","U+16E7C","U+16E7D","U+16E7E","U+16E7F","U+1E922",
      "U+1E923","U+1E924","U+1E925","U+1E926","U+1E927","U+1E928",
      "U+1E929","U+1E92A","U+1E92B","U+1E92C","U+1E92D","U+1E92E",
      "U+1E92F","U+1E930","U+1E931","U+1E932","U+1E933","U+1E934",
      "U+1E935","U+1E936","U+1E937","U+1E938","U+1E939","U+1E93A",
      "U+1E93B","U+1E93C","U+1E93D","U+1E93E","U+1E93F","U+1E940",
      "U+1E941","U+1E942","U+1E943">>

UpperRunes == UpperLetters \o NonAsciiUpper
LowerRunes == LowerLetters \o NonAsciiLower

\* unicode.ToLower on one rune: an upper-case rune maps to its lower-case
\* form, every other rune to itself.
ToLowerRune(r) ==
    IF \E i \in 1..Len(UpperRunes) : UpperRunes[i] = r
    THEN LowerRunes[CHOOSE i \in 1..Len(UpperRunes) : UpperRunes[i] = r]
    ELSE r

ToLower(s) == [i \in 1..Len(s) |-> ToLowerRune(s[i])]

RECURSIVE Join(_, _)
Join(elems, sep) ==
    IF Len(elems) = 0 THEN <<>>
    ELSE IF Len(elems) = 1 THEN elems[1]
    ELSE elems[1] \o sep \o Join(Tail(elems), sep)

(***************************************************************************)
(* helm.sh/helm/v3/pkg/storage/driver names, as the validator reads them.  *)
(***************************************************************************)
MemoryDriverName == <<"M","e","m","o","r","y">>
ConfigMapsDriverName == <<"C","o","n","f","i","g","M","a","p">>
SecretsDriverName == <<"S","e","c","r","e","t">>
SQLDriverName == <<"S","Q","L">>

drivers ==
    << ToLower(MemoryDriverName), ToLower(ConfigMapsDriverName),
       ToLower(SecretsDriverName), ToLower(SQLDriverName) >>

NoArg == <<>>

Text(format, arg) == [format |-> format, arg |-> arg]

Diagnostic(severity, summary, detail) ==
    [severity |-> severity, summary |-> summary, detail |-> detail]

\* The helm_driver ValidateDiagFunc: no diagnostics when the lower-cased
\* value is one of the lower-cased driver names, one Error diagnostic otherwise.
ValidateDiagFunc(val) ==
    LET v == ToLower(val)
    IN  IF \E i \in 1..Len(drivers) : drivers[i] = v
        THEN <<>>
        ELSE << Diagnostic("Error",
                  Text("Invalid storage driver: %v used for helm_driver", v),
                  Text("Helm backend storage driver must be set to one of the following values: %v",
                       Join(drivers, <<",", " ">>))) >>

(***************************************************************************)
(* Values held by a ResourceData or returned by a DefaultFunc: a Go        *)
(* interface{} with its dynamic type.                                      *)
(***************************************************************************)
NilV == [t |-> "nil", s |-> "", b |-> FALSE, l |-> <<>>]
StrV(x) == [t |-> "string", s |-> x, b |-> FALSE, l |-> <<>>]
BoolV(x) == [t |-> "bool", s |-> "", b |-> x, l |-> <<>>]
ListV(x) == [t |-> "list", s |-> "", b |-> FALSE, l |-> x]

Unset == [exists |-> FALSE, v |-> NilV]
SetTo(v) == [exists |-> TRUE, v |-> v]

UnsetDriver == [exists |-> FALSE, v |-> <<>>]
SetDriver(s) == [exists |-> TRUE, v |-> s]

\* schema.EnvDefaultFunc(k, dv): the variable's value when it is non-empty,
\* as a string whatever the field's type, dv otherwise.
EnvDefaultFunc(ee, k, dv) == IF ee[k] # "" THEN StrV(ee[k]) ELSE dv

\* The fields of kubernetesResource() that the model reads: type and DefaultFunc.
kubernetesResource(key) ==
    CASE key = "host" ->
           [type |-> "string", hasDefault |-> TRUE, envVar |-> "KUBE_HOST", dv |-> StrV("")]
      [] key = "insecure" ->
           [type |-> "bool", hasDefault |-> TRUE, envVar |-> "KUBE_INSECURE", dv |-> BoolV(FALSE)]
      [] key = "client_certificate" ->
           [type |-> "string", hasDefault |-> TRUE, envVar |-> "KUBE_CLIENT_CERT_DATA", dv |-> StrV("")]
      [] key = "config_paths" ->
           [type |-> "list", hasDefault |-> FALSE, envVar |-> "", dv |-> NilV]
      [] key = "config_path" ->
           [type |-> "string", hasDefault |-> TRUE, envVar |-> "KUBE_CONFIG_PATH", dv |-> NilV]
      [] key = "token" ->
           [type |-> "string", hasDefault |-> TRUE, envVar |-> "KUBE_TOKEN", dv |-> StrV("")]
      [] key = "exec" ->
           [type |-> "list", hasDefault |-> FALSE, envVar |-> "", dv |-> NilV]

Keys == {"host", "insecure", "client_certificate", "config_paths",
         "config_path", "token", "exec"}

ZeroValue(type) ==
    CASE type = "string" -> StrV("")
      [] type = "bool" -> BoolV(FALSE)
      [] type = "list" -> ListV(<<>>)

\* d.GetOk(k8sPrefix + key): the value and whether it is set to a non-zero value.
GetOk(dd, key) ==
    LET e == dd.k8s[key]
        zero == ZeroValue(kubernetesResource(key).type)
    IN  IF e.exists /\ e.v # zero THEN <<e.v, TRUE>> ELSE <<zero, FALSE>>

\* d.GetOkExists(k8sPrefix + key): the value and whether it is set at all.
GetOkExists(dd, key) ==
    LET e == dd.k8s[key]
        zero == ZeroValue(kubernetesResource(key).type)
    IN  IF e.exists THEN <<e.v, TRUE>> ELSE <<zero, FALSE>>


\* k8sGetOk without the boolean special case.
k8sGetOk_NoBoolCase(dd, ee, key) ==
    LET r == GetOk(dd, key)
        s == kubernetesResource(key)
    IN  IF ~r[2] /\ s.hasDefault
        THEN LET value == EnvDefaultFunc(ee, s.envVar, s.dv)
                 ok == CASE value.t = "string" -> value.s # ""
                         [] value.t = "bool" -> value.b
                         [] OTHER -> r[2]
             IN  <<value, ok>>
        ELSE r

\* k8sGetOk(d, key): the value of a kubernetes field and whether it is set.
\* A boolean is read with GetOkExists; a field the ResourceData does not
\* hold falls back to the schema's DefaultFunc.
k8sGetOk(dd, ee, key) ==
    LET r1 == GetOk(dd, key)
        r2 == IF r1[1].t = "bool" THEN GetOkExists(dd, key) ELSE r1
        s == kubernetesResource(key)
    IN  IF ~r2[2] /\ s.hasDefault
        THEN LET value == EnvDefaultFunc(ee, s.envVar, s.dv)
                 ok == CASE value.t = "string" -> value.s # ""
                         [] value.t = "bool" -> value.b
                         [] OTHER -> r2[2]
             IN  <<value, ok>>
        ELSE r2

\* inCluster(): both service variables non-empty and the token mount present.
inCluster(ee, st) ==
    LET host == ee["KUBERNETES_SERVICE_HOST"]
        port == ee["KUBERNETES_SERVICE_PORT"]
    IN  IF host = "" \/ port = "" THEN FALSE
        ELSE IF ~st THEN FALSE
        ELSE TRUE

authDocumentationURL ==
    "https://registry.terraform.io/providers/hashicorp/helm/latest/docs#authentication"

\* An error value: nil, or the text err.Error() gives.
ErrNil == [nil |-> TRUE, msg |-> ""]
ErrNotConfigured ==
    [nil |-> FALSE,
     msg |-> "provider not configured: you must configure a path to your kubeconfig\nor explicitly supply credentials via the provider block or environment variables.\n\nSee our documentation at: "
             \o authDocumentationURL]

atLeastOneOf ==
    <<"host", "config_path", "config_paths", "client_certificate", "token", "exec">>

checkKubernetesConfigurationValid_NoEnvSignal(dd, ee, st) ==
    IF inCluster(ee, st) THEN ErrNil
    ELSE IF \E i \in 1..Len(atLeastOneOf) : k8sGetOk(dd, ee, atLeastOneOf[i])[2]
    THEN ErrNil
    ELSE ErrNotConfigured

\* checkKubernetesConfigurationValid(d): nil when running in the cluster, when
\* KUBE_CONFIG_PATHS is set, or when one of atLeastOneOf is set.
checkKubernetesConfigurationValid(dd, ee, st) ==
    IF inCluster(ee, st) THEN ErrNil
    ELSE IF ee["KUBE_CONFIG_PATHS"] # "" THEN ErrNil
    ELSE IF \E i \in 1..Len(atLeastOneOf) : k8sGetOk(dd, ee, atLeastOneOf[i])[2]
    THEN ErrNil
    ELSE ErrNotConfigured

\* The helm_driver field as the schema presents it: the configured value, or
\* EnvDefaultFunc("HELM_DRIVER", "secret") when the block does not set it.
HelmDriverValue(dd, ee) ==
    IF dd.helm_driver.exists THEN dd.helm_driver.v
    ELSE IF ee["HELM_DRIVER"] # <<>> THEN ee["HELM_DRIVER"]
    ELSE <<"s","e","c","r","e","t">>

\* d.GetOk("helm_driver")
HelmDriverGetOk(dd, ee) ==
    LET v == HelmDriverValue(dd, ee)
    IN  IF v # <<>> THEN <<v, TRUE>> ELSE << <<>>, FALSE >>

NilMeta == [nil |-> TRUE]
\* cli.New(): Helm's settings before the provider's fields are applied.
cliNew ==
    [Debug |-> FALSE, PluginsDirectory |-> "helm-default",
     RegistryConfig |-> "helm-default", RepositoryConfig |-> "helm-default",
     RepositoryCache |-> "helm-default"]

\* d.GetOk(key) of a top-level string field, applied to a settings field:
\* a non-empty value replaces the setting.
Override(setting, v) == IF v # "" THEN v ELSE setting

\* The settings providerConfigure stores in Meta.Settings.
Settings(dd) ==
    [Debug |-> dd.debug,
     PluginsDirectory |-> Override(cliNew.PluginsDirectory, dd.plugins_path),
     RegistryConfig |-> Override(cliNew.RegistryConfig, dd.registry_config_path),
     RepositoryConfig |-> Override(cliNew.RepositoryConfig, dd.repository_config_path),
     RepositoryCache |-> Override(cliNew.RepositoryCache, dd.repository_cache)]

\* diag.FromErr(err): nil for a nil error, otherwise one Error diagnostic
\* whose summary is err.Error() and whose detail is empty.
FromErr(err) ==
    IF err.nil THEN <<>>
    ELSE << Diagnostic("Error", Text(err.msg, NoArg), Text("", NoArg)) >>

\* providerConfigure(d, terraformVersion): the Meta and the diagnostics.
providerConfigure(dd, ee, st) ==
    LET err == checkKubernetesConfigurationValid(dd, ee, st)
        hd == HelmDriverGetOk(dd, ee)
    IN  IF ~err.nil
        THEN [meta |-> NilMeta, diags |-> FromErr(err)]
        ELSE [meta |-> [nil |-> FALSE, data |-> dd, Settings |-> Settings(dd),
                        HelmDriver |-> IF hd[2] THEN hd[1] ELSE <<>>],
              diags |-> <<>>]

ConflictsWith_Undeclared(dd, ee) == <<>>

\* config_path's ConflictsWith: ["kubernetes.0.config_paths"]. The schema
\* validation that runs ahead of ConfigureContextFunc reports a conflict when
\* config_path has a value (from the block or from its DefaultFunc) and the
\* block holds config_paths.
ConflictsWith(dd, ee) ==
    LET s == kubernetesResource("config_path")
        present == \/ dd.k8s["config_path"].exists
                   \/ EnvDefaultFunc(ee, s.envVar, s.dv) # NilV
    IN  IF present /\ dd.k8s["config_paths"].exists
        THEN << Diagnostic("Error", Text("ConflictsWith", NoArg),
                  Text("kubernetes.0.config_path: conflicts with kubernetes.0.config_paths", NoArg)) >>
        ELSE <<>>

\* The schema of Provider() applied to a configuration: the helm_driver
\* validator on the field's value and the declared conflicts.
Provider(dd, ee) ==
    ValidateDiagFunc(HelmDriverValue(dd, ee)) \o ConflictsWith(dd, ee)

(***************************************************************************)
(* The provider's configuration step: schema validation, then              *)
(* ConfigureContextFunc, which calls providerConfigure.                    *)
(***************************************************************************)
Configure ==
    /\ ~configured
    /\ configured' = TRUE
    /\ LET vd == Provider(d, env)
       IN  IF vd # <<>>
           THEN /\ meta' = NilMeta
                /\ diags' = vd
           ELSE LET r == providerConfigure(d, env, statOk)
                IN  /\ meta' = r.meta
                    /\ diags' = r.diags
    /\ UNCHANGED <<d, env, statOk, mutex, pc, namespace, ret, failed, initArgs, got>>

(***************************************************************************)
(* Meta.GetHelmConfiguration(namespace), one caller per goroutine.         *)
(* pc: idle -> lock -> newKubeConfig -> init -> done.                      *)
(***************************************************************************)
Errs == {"errA", "errB"}
NoErr == "nil"

NilConf == [nil |-> TRUE]
NoRet == [conf |-> NilConf, err |-> NoErr]
NoFailure == [step |-> "none", err |-> NoErr]
NoInit == [called |-> FALSE]

\* A caller invokes m.GetHelmConfiguration(ns) on the configured Meta.
Call(c, ns) ==
    /\ meta # NilMeta
    /\ pc[c] = "idle"
    /\ pc' = [pc EXCEPT ![c] = "lock"]
    /\ namespace' = [namespace EXCEPT ![c] = ns]
    /\ UNCHANGED <<d, env, statOk, meta, diags, configured, mutex, ret, failed,
                   initArgs, got>>

Lock_NoWait(c) ==
    /\ pc[c] = "lock"
    /\ mutex' = TRUE
    /\ pc' = [pc EXCEPT ![c] = "newKubeConfig"]
    /\ UNCHANGED <<d, env, statOk, meta, diags, configured, namespace, ret, failed,
                   initArgs, got>>

\* m.Lock(): blocks while the mutex is held.
Lock(c) ==
    /\ pc[c] = "lock"
    /\ ~mutex
    /\ mutex' = TRUE
    /\ pc' = [pc EXCEPT ![c] = "newKubeConfig"]
    /\ UNCHANGED <<d, env, statOk, meta, diags, configured, namespace, ret, failed,
                   initArgs, got>>

Return_UnlockOnSuccessOnly(c, conf, err) ==
    /\ ret' = [ret EXCEPT ![c] = [conf |-> conf, err |-> err]]
    /\ mutex' = IF err = NoErr THEN FALSE ELSE mutex
    /\ pc' = [pc EXCEPT ![c] = "done"]

\* return conf, err: the deferred m.Unlock() runs on every return.
Return(c, conf, err) ==
    /\ ret' = [ret EXCEPT ![c] = [conf |-> conf, err |-> err]]
    /\ mutex' = FALSE
    /\ pc' = [pc EXCEPT ![c] = "done"]

NewKubeConfig_IgnoresErr(c) ==
    /\ pc[c] = "newKubeConfig"
    /\ \/ /\ pc' = [pc EXCEPT ![c] = "init"]
          /\ UNCHANGED <<mutex, ret, failed>>
       \/ \E e \in Errs :
             /\ failed' = [failed EXCEPT ![c] = [step |-> "newKubeConfig", err |-> e]]
             /\ pc' = [pc EXCEPT ![c] = "init"]
             /\ UNCHANGED <<mutex, ret>>
    /\ UNCHANGED <<d, env, statOk, meta, diags, configured, namespace, initArgs, got>>

NewKubeConfig_NestedLock(c) ==
    /\ pc[c] = "newKubeConfig"
    /\ ~mutex
    /\ pc' = [pc EXCEPT ![c] = "init"]
    /\ UNCHANGED <<d, env, statOk, meta, diags, configured, mutex, namespace, ret,
                   failed, initArgs, got>>

\* kc, err := newKubeConfig(m.data, &namespace); an error returns (nil, err).
NewKubeConfig(c) ==
    /\ pc[c] = "newKubeConfig"
    /\ \/ /\ pc' = [pc EXCEPT ![c] = "init"]
          /\ UNCHANGED <<mutex, ret, failed>>
       \/ \E e \in Errs :
             /\ failed' = [failed EXCEPT ![c] = [step |-> "newKubeConfig", err |-> e]]
             /\ Return(c, NilConf, e)
    /\ UNCHANGED <<d, env, statOk, meta, diags, configured, namespace, initArgs, got>>

ActionConfigInit_NormalizesInPlace(c) ==
    /\ pc[c] = "init"
    /\ meta' = [meta EXCEPT !.HelmDriver = ToLower(meta.HelmDriver)]
    /\ initArgs' = [initArgs EXCEPT ![c] =
                      [called |-> TRUE, namespace |-> namespace[c],
                       helmDriver |-> ToLower(meta.HelmDriver)]]
    /\ \/ /\ Return(c, [nil |-> FALSE, namespace |-> namespace[c],
                        helmDriver |-> ToLower(meta.HelmDriver)], NoErr)
          /\ UNCHANGED failed
       \/ \E e \in Errs :
             /\ failed' = [failed EXCEPT ![c] = [step |-> "Init", err |-> e]]
             /\ Return(c, NilConf, e)
    /\ UNCHANGED <<d, env, statOk, diags, configured, namespace, got>>

\* actionConfig.Init(kc, namespace, m.HelmDriver, debug); an error returns
\* (nil, err), success returns (actionConfig, nil).
ActionConfigInit(c) ==
    /\ pc[c] = "init"
    /\ initArgs' = [initArgs EXCEPT ![c] =
                      [called |-> TRUE, namespace |-> namespace[c],
                       helmDriver |-> meta.HelmDriver]]
    /\ \/ /\ Return(c, [nil |-> FALSE, namespace |-> namespace[c],
                        helmDriver |-> meta.HelmDriver], NoErr)
          /\ UNCHANGED failed
       \/ \E e \in Errs :
             /\ failed' = [failed EXCEPT ![c] = [step |-> "Init", err |-> e]]
             /\ Return(c, NilConf, e)
    /\ UNCHANGED <<d, env, statOk, meta, diags, configured, namespace, got>>

(***************************************************************************)
(* Direct calls of the pure functions, recording the result.               *)
(***************************************************************************)
NoCall == [fn |-> "none"]

CallCheckKubernetesConfigurationValid ==
    /\ got = NoCall
    /\ got' = [fn |-> "checkKubernetesConfigurationValid",
               err |-> checkKubernetesConfigurationValid(d, env, statOk)]
    /\ UNCHANGED <<d, env, statOk, meta, diags, configured, mutex, pc, namespace,
                   ret, failed, initArgs>>

CallValidateDiagFunc ==
    /\ got = NoCall
    /\ got' = [fn |-> "ValidateDiagFunc", val |-> HelmDriverValue(d, env),
               diags |-> ValidateDiagFunc(HelmDriverValue(d, env))]
    /\ UNCHANGED <<d, env, statOk, meta, diags, configured, mutex, pc, namespace,
                   ret, failed, initArgs>>

CallK8sGetOk(key) ==
    /\ got = NoCall
    /\ LET r == k8sGetOk(d, env, key)
       IN  got' = [fn |-> "k8sGetOk", key |-> key, value |-> r[1], ok |-> r[2]]
    /\ UNCHANGED <<d, env, statOk, meta, diags, configured, mutex, pc, namespace,
                   ret, failed, initArgs>>

(***************************************************************************)
(* Initial states.  Every specification starts before the provider is      *)
(* configured, with every caller idle and the mutex free; they differ in   *)
(* the configurations and environments they range over.                    *)
(***************************************************************************)
InitRest ==
    /\ meta = NilMeta
    /\ diags = <<>>
    /\ configured = FALSE
    /\ mutex = FALSE
    /\ pc = [c \in Callers |-> "idle"]
    /\ namespace = [c \in Callers |-> ""]
    /\ ret = [c \in Callers |-> NoRet]
    /\ failed = [c \in Callers |-> NoFailure]
    /\ initArgs = [c \in Callers |-> NoInit]
    /\ got = NoCall

StrField3 == {Unset, SetTo(StrV("")), SetTo(StrV("x"))}
StrField2 == {Unset, SetTo(StrV("x"))}
ListField == {Unset, SetTo(ListV(<<>>)), SetTo(ListV(<<"/b">>))}
ExecField == {Unset, SetTo(ListV(<<"exec">>))}
BoolField == {Unset, SetTo(BoolV(FALSE)), SetTo(BoolV(TRUE))}

redis == <<"r","e","d","i","s">>

\* Configurations and environments for the provider's life: configuration,
\* then concurrent GetHelmConfiguration calls.
Init ==
    /\ d \in [helm_driver : {UnsetDriver, SetDriver(ConfigMapsDriverName),
                             SetDriver(ToLower(SecretsDriverName)), SetDriver(redis)},
              k8s : [host : StrField2, insecure : {Unset},
                     client_certificate : {Unset}, config_paths : ListField,
                     config_path : {Unset, SetTo(StrV("/a"))}, token : {Unset},
                     exec : {Unset}],
              debug : BOOLEAN, plugins_path : {"", "/plugins"},
              registry_config_path : {"/registry.json"},
              repository_config_path : {"/repositories.yaml"},
              repository_cache : {"/cache"}]
    /\ env \in [KUBERNETES_SERVICE_HOST : {""}, KUBERNETES_SERVICE_PORT : {""},
                KUBE_CONFIG_PATHS : {""}, KUBE_HOST : {""}, KUBE_INSECURE : {""},
                KUBE_CLIENT_CERT_DATA : {""}, KUBE_CONFIG_PATH : {"", "/e"},
                KUBE_TOKEN : {""}, HELM_DRIVER : {<<>>, MemoryDriverName}]
    /\ statOk = FALSE
    /\ InitRest

Next ==
    \/ Configure
    \/ \E c \in Callers, ns \in Namespaces : Call(c, ns)
    \/ \E c \in Callers : Lock(c)
    \/ \E c \in Callers : NewKubeConfig(c)
    \/ \E c \in Callers : ActionConfigInit(c)

Spec == Init /\ [][Next]_vars

\* A narrower set of configurations, all accepted, for the progress property.
InitFair ==
    /\ d \in [helm_driver : {UnsetDriver, SetDriver(ConfigMapsDriverName)},
              k8s : [host : {SetTo(StrV("x"))}, insecure : {Unset},
                     client_certificate : {Unset}, config_paths : {Unset},
                     config_path : {Unset}, token : {Unset}, exec : {Unset}],
              debug : {FALSE}, plugins_path : {"/plugins"},
              registry_config_path : {"/registry.json"},
              repository_config_path : {"/repositories.yaml"},
              repository_cache : {"/cache"}]
    /\ env \in [KUBERNETES_SERVICE_HOST : {""}, KUBERNETES_SERVICE_PORT : {""},
                KUBE_CONFIG_PATHS : {""}, KUBE_HOST : {""}, KUBE_INSECURE : {""},
                KUBE_CLIENT_CERT_DATA : {""}, KUBE_CONFIG_PATH : {""},
                KUBE_TOKEN : {""}, HELM_DRIVER : {<<>>}]
    /\ statOk = FALSE
    /\ InitRest

\* Lock acquisition is fair and every construction step returns.
Fairness ==
    \A c \in Callers :
        /\ SF_vars(Lock(c))
        /\ WF_vars(NewKubeConfig(c))
        /\ WF_vars(ActionConfigInit(c))

FairSpec == InitFair /\ [][Next]_vars /\ Fairness

\* Inputs of checkKubernetesConfigurationValid.
InitAuth ==
    /\ d \in [helm_driver : {UnsetDriver},
              k8s : [host : StrField3, insecure : {Unset},
                     client_certificate : StrField2, config_paths : ListField,
                     config_path : StrField3, token : StrField2,
                     exec : ExecField],
              debug : {FALSE}, plugins_path : {"/plugins"},
              registry_config_path : {"/registry.json"},
              repository_config_path : {"/repositories.yaml"},
              repository_cache : {"/cache"}]
    /\ env \in [KUBERNETES_SERVICE_HOST : {"", "10.0.0.1"},
                KUBERNETES_SERVICE_PORT : {"", "443"},
                KUBE_CONFIG_PATHS : {"", "/p"}, KUBE_HOST : {"", "e"},
                KUBE_INSECURE : {""}, KUBE_CLIENT_CERT_DATA : {"", "e"},
                KUBE_CONFIG_PATH : {"", "e"}, KUBE_TOKEN : {"", "e"},
                HELM_DRIVER : {<<>>}]
    /\ statOk \in BOOLEAN
    /\ InitRest

NextAuth == CallCheckKubernetesConfigurationValid

SpecAuth == InitAuth /\ [][NextAuth]_vars

\* Inputs of k8sGetOk.
InitRead ==
    /\ d \in [helm_driver : {UnsetDriver},
              k8s : [host : StrField3, insecure : BoolField,
                     client_certificate : StrField2, config_paths : ListField,
                     config_path : StrField3, token : StrField2,
                     exec : ExecField],
              debug : {FALSE}, plugins_path : {"/plugins"},
              registry_config_path : {"/registry.json"},
              repository_config_path : {"/repositories.yaml"},
              repository_cache : {"/cache"}]
    /\ env \in [KUBERNETES_SERVICE_HOST : {""}, KUBERNETES_SERVICE_PORT : {""},
                KUBE_CONFIG_PATHS : {""}, KUBE_HOST : {"", "e"},
                KUBE_INSECURE : {"", "true", "false"},
                KUBE_CLIENT_CERT_DATA : {"", "e"},
                KUBE_CONFIG_PATH : {"", "e"}, KUBE_TOKEN : {"", "e"},
                HELM_DRIVER : {<<>>}]
    /\ statOk = FALSE
    /\ InitRest

NextRead == \E key \in Keys : CallK8sGetOk(key)

SpecRead == InitRead /\ [][NextRead]_vars

\* Inputs of the helm_driver validator: every string over the letters of
\* "sql" in both cases up to MaxDriverLen, spellings of the other names,
\* and strings holding runes outside ASCII.
SqlLetters == {"s", "S", "q", "Q", "l", "L"}

StringsUpTo(alphabet, n) == UNION {[1..k -> alphabet] : k \in 0..n}

DriverInputs ==
    StringsUpTo(SqlLetters, MaxDriverLen) \cup
    { MemoryDriverName, ToLower(MemoryDriverName),
      <<"M","E","M","O","R","Y">>, <<"m","E","m","O","r","Y">>,
      ConfigMapsDriverName, ToLower(ConfigMapsDriverName),
      <<"C","O","N","F","I","G","M","A","P">>,
      <<"c","o","n","f","i","g","m","a","p","s">>,
      <<"c","o","n","f","i","g","-","m","a","p">>,
      SecretsDriverName, ToLower(SecretsDriverName),
      <<"S","E","C","R","E","T">>, <<"s","e","c","r","e","t","s">>,
      <<"s","e","c","r","e","t"," ">>,
      redis, <<"R","e","d","i","s">>,
      <<"c","o","n","f","U+0130","g","m","a","p">>,
      <<"U+017F","e","c","r","e","t">>,
      <<"r","U+00C9","d","i","s">>, <<"r","U+00E9","d","i","s">>,
      <<"U+0178">>, <<"U+1E9E","q","l">>, <<"s","q","U+0391">>,
      <<"U+0410","U+0100","U+03A3">>, <<"s","U+212A","l">> }

InitDriver ==
    /\ d \in [helm_driver : {UnsetDriver} \cup {SetDriver(x) : x \in DriverInputs},
              k8s : [host : {SetTo(StrV("x"))}, insecure : {Unset},
                     client_certificate : {Unset}, config_paths : {Unset},
                     config_path : {Unset}, token : {Unset}, exec : {Unset}],
              debug : {FALSE}, plugins_path : {"/plugins"},
              registry_config_path : {"/registry.json"},
              repository_config_path : {"/repositories.yaml"},
              repository_cache : {"/cache"}]
    /\ env \in [KUBERNETES_SERVICE_HOST : {""}, KUBERNETES_SERVICE_PORT : {""},
                KUBE_CONFIG_PATHS : {""}, KUBE_HOST : {""}, KUBE_INSECURE : {""},
                KUBE_CLIENT_CERT_DATA : {""}, KUBE_CONFIG_PATH : {""},
                KUBE_TOKEN : {""},
                HELM_DRIVER : {<<>>, SQLDriverName, redis}]
    /\ statOk = FALSE
    /\ InitRest

NextDriver == CallValidateDiagFunc

SpecDriver == InitDriver /\ [][NextDriver]_vars

(***************************************************************************)
(* Properties.                                                             *)
(***************************************************************************)
InGuardedRegion(c) == pc[c] \in {"newKubeConfig", "init"}

\* The instrumented counter: incremented after m.Lock(), decremented before
\* the unlock.
counter == Cardinality({c \in Callers : InGuardedRegion(c)})

\* C1: at most one caller at a time is between lock acquisition and return,
\* whatever the namespaces: the counter never exceeds 1.
C1_MutualExclusion == counter <= 1

C1_Witness ==
    \E c1, c2 \in Callers :
        /\ c1 # c2
        /\ pc[c1] = "init"
        /\ pc[c2] = "lock"
        /\ namespace[c1] # namespace[c2]

\* C2: the mutex is released on every exit path: whenever no call is between
\* lock acquisition and return (in particular when no call is in progress),
\* the mutex is free, whether calls ended in success, in an error from
\* newKubeConfig or in an error from actionConfig.Init.
C2_LockReleased == (\A c \in Callers : ~InGuardedRegion(c)) => ~mutex

C2_Witness ==
    /\ \A c \in Callers : pc[c] = "done"
    /\ \E c \in Callers : failed[c].step = "newKubeConfig"
    /\ \E c \in Callers : failed[c].step = "Init"
    /\ ~mutex

FieldIsSet(key) ==
    LET e == d.k8s[key]
        s == kubernetesResource(key)
    IN  \/ e.exists /\ e.v # ZeroValue(s.type)
        \/ s.hasDefault /\ env[s.envVar] # ""

InClusterFeasible ==
    /\ env["KUBERNETES_SERVICE_HOST"] # ""
    /\ env["KUBERNETES_SERVICE_PORT"] # ""
    /\ statOk

AuthFields ==
    {"host", "config_path", "config_paths", "client_certificate", "token", "exec"}

\* C3: checkKubernetesConfigurationValid returns the 'provider not configured'
\* error exactly when none of host, config_path, config_paths,
\* client_certificate, token, exec is set (in the block or through its
\* environment default), in-cluster feasibility is false and KUBE_CONFIG_PATHS
\* is empty; in every other case it returns no error.
C3_AuthenticationMissingIff ==
    got.fn = "checkKubernetesConfigurationValid" =>
        IF /\ \A k \in AuthFields : ~FieldIsSet(k)
           /\ ~InClusterFeasible
           /\ env["KUBE_CONFIG_PATHS"] = ""
        THEN got.err = ErrNotConfigured
        ELSE got.err = ErrNil

C3_Witness ==
    /\ got.fn = "checkKubernetesConfigurationValid"
    /\ got.err = ErrNotConfigured
    /\ d.k8s["host"] = SetTo(StrV(""))
    /\ d.k8s["config_path"] = SetTo(StrV(""))
    /\ d.k8s["config_paths"] = SetTo(ListV(<<>>))
    /\ env["KUBERNETES_SERVICE_HOST"] # ""
    /\ env["KUBERNETES_SERVICE_PORT"] # ""

\* One letter in either ASCII case.
SameLetterIgnoringCase(x, y) ==
    \/ x = y
    \/ \E i \in 1..Len(UpperLetters) : {x, y} = {UpperLetters[i], LowerLetters[i]}

\* A letter-casing of a name: the name with each letter in either case.
IsLetterCasingOf(a, b) ==
    /\ Len(a) = Len(b)
    /\ \A i \in 1..Len(a) : SameLetterIgnoringCase(a[i], b[i])

\* Unicode simple case folding (strings.EqualFold): two runes are equal when
\* they fold to the same rune.  A rune folds to its lower-case form, except
\* the runes of FoldExceptions: U+0130 folds to itself, and each of the
\* others has no lower-case mapping and folds to another rune (long s to s,
\* final sigma to sigma, ...).
FoldExceptions ==
    <<"U+00B5","U+0130","U+017F","U+0345","U+03C2","U+03D0",
      "U+03D1","U+03D5","U+03D6","U+03F0","U+03F1","U+03F5",
      "U+1C80","U+1C81","U+1C82","U+1C83","U+1C84","U+1C85",
      "U+1C86","U+1C87","U+1C88","U+1E9B","U+1FBE">>
FoldExceptionsTo ==
    <<"U+03BC","U+0130","s","U+03B9","U+03C3","U+03B2",
      "U+03B8","U+03C6","U+03C0","U+03BA","U+03C1","U+03B5",
      "U+0432","U+0434","U+043E","U+0441","U+0442","U+0442",
      "U+044A","U+0463","U+A64B","U+1E61","U+03B9">>

SimpleFold(r) ==
    IF \E i \in 1..Len(FoldExceptions) : FoldExceptions[i] = r
    THEN FoldExceptionsTo[CHOOSE i \in 1..Len(FoldExceptions) : FoldExceptions[i] = r]
    ELSE ToLowerRune(r)

EqualFoldRune(x, y) == SimpleFold(x) = SimpleFold(y)

\* Case-insensitive equality of two strings.
EqualFold(a, b) ==
    /\ Len(a) = Len(b)
    /\ \A i \in 1..Len(a) : EqualFoldRune(a[i], b[i])

ValidNames ==
    { <<"m","e","m","o","r","y">>, <<"c","o","n","f","i","g","m","a","p">>,
      <<"s","e","c","r","e","t">>, <<"s","q","l">> }

Contains(hay, needle) ==
    \E i \in 0..Len(hay) :
        /\ i + Len(needle) <= Len(hay)
        /\ SubSeq(hay, i + 1, i + Len(needle)) = needle

\* C4: the helm_driver validator returns an Error diagnostic for every input
\* that is not case-insensitively equal to one of memory, configmap, secret,
\* sql, and no diagnostic for each of the four in any letter-casing; the
\* error's detail enumerates the four valid names.
C4_DriverValidation ==
    got.fn = "ValidateDiagFunc" =>
        /\ (~ \E n \in ValidNames : EqualFold(got.val, n)) =>
              /\ Len(got.diags) = 1
              /\ got.diags[1].severity = "Error"
        /\ (\E n \in ValidNames : IsLetterCasingOf(got.val, n)) =>
              got.diags = <<>>
        /\ got.diags # <<>> =>
              \A n \in ValidNames : Contains(got.diags[1].detail.arg, n)

\* C5: for every helm_driver input that passes validation, the value stored
\* in Meta.HelmDriver and the value passed to actionConfig.Init is the
\* lower-cased driver name.
C5_DriverNormalized ==
    /\ meta # NilMeta => meta.HelmDriver \in ValidNames
    /\ \A c \in Callers :
          initArgs[c].called => initArgs[c].helmDriver \in ValidNames

ConfigPathSet ==
    \/ d.k8s["config_path"].exists /\ d.k8s["config_path"].v # StrV("")
    \/ env["KUBE_CONFIG_PATH"] # ""

ConfigPathsNonEmpty ==
    d.k8s["config_paths"].exists /\ d.k8s["config_paths"].v # ListV(<<>>)

HasConflictDiag ==
    \E i \in 1..Len(diags) : diags[i].summary.format = "ConflictsWith"

\* C6: whenever a singular config path (config_path, from the block or from
\* KUBE_CONFIG_PATH) and a non-empty config_paths list are both set,
\* configuration ends with a config-path conflict error whatever the other
\* fields are, no Meta is produced, and no GetHelmConfiguration call (the
\* only reader of kubeconfig files) ever starts.
C6_ConfigPathConflict ==
    (ConfigPathSet /\ ConfigPathsNonEmpty) =>
        /\ meta = NilMeta
        /\ \A c \in Callers : pc[c] = "idle"
        /\ configured => HasConflictDiag

C6_Witness ==
    /\ configured
    /\ env["KUBE_CONFIG_PATH"] # ""
    /\ ~d.k8s["config_path"].exists
    /\ ConfigPathsNonEmpty
    /\ d.helm_driver = SetDriver(redis)
    /\ HasConflictDiag
    /\ Len(diags) = 2

\* C7 (as stated): the two failure kinds are reported as distinct wrapped
\* errors, so the returned error of a call that failed in newKubeConfig
\* always differs from the returned error of a call that failed in
\* actionConfig.Init.
C7_DistinctWrappedErrors ==
    \A c1, c2 \in Callers :
        (/\ pc[c1] = "done" /\ failed[c1].step = "newKubeConfig"
         /\ pc[c2] = "done" /\ failed[c2].step = "Init")
        => ret[c1].err # ret[c2].err

\* C7 (amended): a failing call returns a nil configuration and the failing
\* step's own error, unchanged and unwrapped; a newKubeConfig failure returns
\* before actionConfig.Init is called; a call with no failing step returns a
\* configuration and a nil error.
C7_ErrorsReturnedUnchanged ==
    \A c \in Callers :
        pc[c] = "done" =>
            CASE failed[c].step = "newKubeConfig" ->
                   /\ ret[c] = [conf |-> NilConf, err |-> failed[c].err]
                   /\ ~initArgs[c].called
              [] failed[c].step = "Init" ->
                   /\ ret[c] = [conf |-> NilConf, err |-> failed[c].err]
                   /\ initArgs[c].called
              [] OTHER ->
                   /\ ret[c].err = NoErr
                   /\ ret[c].conf # NilConf

C7_Witness ==
    \E c1, c2 \in Callers :
        /\ pc[c1] = "done" /\ failed[c1].step = "newKubeConfig"
        /\ pc[c2] = "done" /\ failed[c2].step = "Init"
        /\ ret[c1].err = ret[c2].err
        /\ ret[c1].err \in Errs

ExplicitlySet(key) ==
    LET e == d.k8s[key]
        type == kubernetesResource(key).type
    IN  e.exists /\ (type = "bool" \/ e.v # ZeroValue(type))

\* C8: a kubernetes field set by the provider block is returned by k8sGetOk
\* as set, with the block's value, whatever the field's environment variable
\* holds, also when the block's value is boolean false; the environment
\* default is the result only when the block did not set the field.
C8_ExplicitValueWins ==
    got.fn = "k8sGetOk" =>
        LET s == kubernetesResource(got.key)
        IN  /\ ExplicitlySet(got.key) =>
                 got.value = d.k8s[got.key].v /\ got.ok
            /\ (s.hasDefault /\ env[s.envVar] # ""
                  /\ got.value = StrV(env[s.envVar])) => ~ExplicitlySet(got.key)

C8_Witness ==
    /\ got.fn = "k8sGetOk"
    /\ got.key = "insecure"
    /\ d.k8s["insecure"] = SetTo(BoolV(FALSE))
    /\ env["KUBE_INSECURE"] = "true"
    /\ got.value = BoolV(FALSE)
    /\ got.ok

\* C9: once providerConfigure has returned a Meta, no step of any
\* GetHelmConfiguration call, succeeding or failing, changes Meta.data,
\* Meta.Settings or Meta.HelmDriver, and the Meta never becomes nil again.
C9_MetaWriteOnce == [][meta # NilMeta => meta' = meta]_vars

C9_Witness ==
    /\ meta # NilMeta
    /\ meta.HelmDriver = ConfigMapsDriverName
    /\ \E c \in Callers : pc[c] = "done" /\ failed[c].step = "Init"
    /\ \E c \in Callers : pc[c] = "done" /\ failed[c].step = "none"

\* C10: with fair lock acquisition and construction steps that return, every
\* started GetHelmConfiguration call eventually returns.
C10_EveryCallReturns ==
    \A c \in Callers : (pc[c] = "lock") ~> (pc[c] = "done")

C10_Witness ==
    \E c1, c2 \in Callers :
        /\ pc[c1] = "done" /\ failed[c1].step = "newKubeConfig"
        /\ pc[c2] = "done" /\ failed[c2].step = "none"
        /\ ret[c2].conf # NilConf

=============================================================================
